---- MODULE Spec2Model ----
(***************************************************************************)
(* Model of qwen_tts/client.py: QwenTTSClient.tts and the two helpers it   *)
(* composes, _join_queue (POST /gradio_api/queue/join) and _poll_data      *)
(* (GET /gradio_api/queue/data, a generator over server-sent events).      *)
(* The network, the remote server, the wall clock and the user's Ctrl+C    *)
(* are the environment: their moves are the nondeterministic actions.      *)
(* Time is counted in whole seconds.                                       *)
(***************************************************************************)
EXTENDS Integers, Sequences, FiniteSets, TLC

VARIABLES
    pc,           \* where the tts call is: idle, post, get, wait, body, done
    now,          \* time.time()
    start_time,   \* tts local, line 215
    timeout,      \* tts argument
    gap,          \* seconds the blocking network step has waited without a byte
    generated,    \* tokens returned by _generate_session_hash, in order
    reqs,         \* HTTP requests issued through self.session, in order
    joinExit,     \* how _join_queue ended
    session_hash, \* tts local, line 220
    stream,       \* the response of the GET: none, open, closed
    sent,         \* frames the generator has read from the stream, in order
    event,        \* the value _poll_data has just yielded to the loop of tts
    seen,         \* values the loop body of tts has been entered with, in order
    examined,     \* the loop body has read output.data of an event (line 239)
    result,       \* value returned by tts
    cause,        \* the exit path tts took
    raised,       \* an exception left tts
    returnTime,   \* time.time() when tts ended
    net,          \* what the network and the server did: the outcome of the
                  \* POST, the body of its reply, the outcome of the GET, and
                  \* how the reading of the stream ended
    calls,        \* two tts calls on one client (threads): per call its place,
                  \* its token, the session_hash of its GET, its connection and
                  \* the jobs whose events it has consumed
    jobs          \* the server's queue: the jobs joined, each keyed by the
                  \* session_hash of its POST

vars == <<pc, now, start_time, timeout, gap, generated, reqs, joinExit,
          session_hash, stream, sent, event, seen, examined, result, cause,
          raised, returnTime, net, calls, jobs>>

\* the state of the single call followed in detail, but for generated and reqs
oneCall == <<pc, now, start_time, timeout, gap, joinExit, session_hash, stream,
             sent, event, seen, examined, result, cause, raised, returnTime, net>>

\* the state of the two concurrent calls
twoCalls == <<calls, jobs>>

-----------------------------------------------------------------------------
(* Bounds of the model *)

MaxTime == 7        \* the clock stops advancing here
MaxTimeout == 2     \* tts is called with timeout in 1..MaxTimeout
MaxEvents == 3      \* frames the server sends on one stream

(* Program constants *)

CONNECT_TIMEOUT == 5            \* timeout=(5, ...) of both requests
DEFAULT_TIMEOUT_JOIN == 30      \* read timeout of the POST

-----------------------------------------------------------------------------
(* Python values *)

PyNone == "<None>"      \* Python's None
Unset == "<unset>"      \* a local not yet assigned
NoExc == "<no exception>"

\* bool(v) for the values that occur: None, "" and False are falsy.
Truthy(v) == v \notin {PyNone, "", "false"}

\* _generate_session_hash draws 9 characters with random.choices: any string
\* of [a-z0-9]{9}; two calls may draw the same one.
Tokens == {"k3x9q0zpa", "m81bd77ce"}

Urls == {"https://h/a.wav", "https://h/b.wav"}
U1 == "https://h/a.wav"
U2 == "https://h/b.wav"

-----------------------------------------------------------------------------
(* Output items of a process_completed event: output.data[i] *)

Item(isdict, url) == [isdict |-> isdict, url |-> url]
ItemU1 == Item(TRUE, U1)
ItemU2 == Item(TRUE, U2)
ItemNoUrl == Item(TRUE, PyNone)     \* a dict without "url"
ItemEmptyUrl == Item(TRUE, "")      \* "url": ""
ItemNotDict == Item(FALSE, PyNone)  \* null, a string, a number

DataLists ==
    { <<>>, <<ItemU1>>, <<ItemU1, ItemU2>>, <<ItemNoUrl, ItemU1>>,
      <<ItemEmptyUrl, ItemU2>>, <<ItemNoUrl>>, <<ItemNotDict, ItemU1>> }

-----------------------------------------------------------------------------
(* Frames on the wire: the data field of one server-sent event *)

Frame(enc, text, msg, success, data) ==
    [enc |-> enc, text |-> text, msg |-> msg, success |-> success, data |-> data]

InfoFrames ==
    { Frame("json_object", "info", m, PyNone, <<>>) : m \in {"send_hash", "estimation"} }

OtherFrames ==
    { Frame("json_object", "starts", "process_starts", PyNone, <<>>),
      Frame("json_object", "nomsg", PyNone, PyNone, <<>>) }

MalformedFrames == { Frame("not_json", "<html>502", PyNone, PyNone, <<>>) }

\* valid JSON that is not an object: 5, "x", [1], null
NonObjectFrames == { Frame("json_other", "[1]", PyNone, PyNone, <<>>) }

CompletedFrames ==
    { Frame("json_object", "done", "process_completed", "true", d) : d \in DataLists }
    \cup { Frame("json_object", "done", "process_completed", s, d) :
             s \in {"false", PyNone}, d \in { <<>>, <<ItemU1>> } }

Frames == InfoFrames \cup OtherFrames \cup MalformedFrames \cup NonObjectFrames
          \cup CompletedFrames

-----------------------------------------------------------------------------
(* _poll_data, lines 167-178: what the generator yields for one frame.  A   *)
(* yielded value is a Python object: a dict (isdict) whose absent keys read *)
(* as None through .get, or some other JSON value.                          *)

PyValue(isdict, msg, success, data, raw, error) ==
    [isdict |-> isdict, msg |-> msg, success |-> success, data |-> data,
     raw |-> raw, error |-> error]

NoEvent == PyValue(FALSE, Unset, Unset, <<>>, Unset, Unset)

\* json.loads(event.data), and the record built on json.JSONDecodeError
Parse(frame) ==
    IF frame.enc = "not_json"
    THEN PyValue(TRUE, PyNone, PyNone, <<>>, frame.text, "JSONDecodeError")
    ELSE PyValue(frame.enc = "json_object", frame.msg, frame.success, frame.data,
                 PyNone, PyNone)

-----------------------------------------------------------------------------
(* tts, the body of the for loop, lines 227-252 *)

\* A bug: no elapsed-time check in the loop.
ElapsedNever(t, st, T) == FALSE

\* A bug: the budget counts as used up when it is exactly reached.
ElapsedAtLeast(t, st, T) == t - st >= T

\* line 227: time.time() - start_time > timeout
ElapsedExceeded(t, st, T) == t - st > T

\* line 234
InfoMsgs == {"send_hash", "queue_full", "estimation"}

\* f"{audio_url}": a str formats to itself
FormatStr(v) == v

Outcome(kind, value, exc, why, readsData) ==
    [kind |-> kind, value |-> value, exc |-> exc, why |-> why, readsData |-> readsData]

\* A bug (or another design): search the output items for the first with a URL.
RECURSIVE FirstUrl(_)
FirstUrl(data) ==
    IF data = <<>> THEN PyNone
    ELSE IF Head(data).isdict /\ Truthy(Head(data).url) THEN Head(data).url
    ELSE FirstUrl(Tail(data))

ExtractUrlSearching(ev) ==
    IF FirstUrl(ev.data) # PyNone
    THEN Outcome("return", FormatStr(FirstUrl(ev.data)), NoExc, "completed", TRUE)
    ELSE Outcome("return", PyNone, NoExc, "no_url", TRUE)

\* lines 239-249: output_data[0].get("url"), for an event with success truthy
ExtractUrl(ev) ==
    IF Len(ev.data) > 0
    THEN IF ~ev.data[1].isdict
         THEN Outcome("raise", PyNone, "AttributeError", "exception", TRUE)
         ELSE IF Truthy(ev.data[1].url)
              THEN Outcome("return", FormatStr(ev.data[1].url), NoExc, "completed", TRUE)
              ELSE Outcome("return", PyNone, NoExc, "no_url", TRUE)
    ELSE Outcome("return", PyNone, NoExc, "no_url", TRUE)

\* A bug: the success flag is not looked at.
OnCompletedIgnoringSuccess(ev) == ExtractUrl(ev)

\* A bug: a process_completed event reporting failure does not end the loop,
\* a later process_completed may still decide.
OnCompletedFailureContinues(ev) ==
    IF Truthy(ev.success)
    THEN ExtractUrl(ev)
    ELSE Outcome("continue", PyNone, NoExc, "", FALSE)

\* lines 238-252: the process_completed branch
OnCompleted(ev) ==
    IF Truthy(ev.success)
    THEN ExtractUrl(ev)
    ELSE Outcome("return", PyNone, NoExc, "failed", FALSE)

\* A bug: a record without a known msg ends the loop.
DispatchStrict(ev) ==
    IF ~ev.isdict THEN Outcome("raise", PyNone, "AttributeError", "exception", FALSE)
    ELSE IF ev.msg \in InfoMsgs THEN Outcome("continue", PyNone, NoExc, "", FALSE)
    ELSE IF ev.msg = "process_completed" THEN OnCompleted(ev)
    ELSE Outcome("return", PyNone, NoExc, "unknown", FALSE)

\* lines 231-252: event.get("msg") and the if/elif on it
Dispatch(ev) ==
    IF ~ev.isdict THEN Outcome("raise", PyNone, "AttributeError", "exception", FALSE)
    ELSE IF ev.msg \in InfoMsgs THEN Outcome("continue", PyNone, NoExc, "", FALSE)
    ELSE IF ev.msg = "process_completed" THEN OnCompleted(ev)
    ELSE Outcome("continue", PyNone, NoExc, "", FALSE)

\* lines 227-252: one pass through the loop body
LoopBody(ev, t, st, T) ==
    IF ElapsedExceeded(t, st, T)
    THEN Outcome("return", PyNone, NoExc, "elapsed", FALSE)
    ELSE Dispatch(ev)

\* A bug: the end of the stream is reported by an exception, outside the try.
AfterLoopRaises == Outcome("raise", PyNone, "RuntimeError", "exhausted", FALSE)

\* lines 271-273: the for loop ended without a return
AfterLoop == Outcome("return", PyNone, NoExc, "exhausted", FALSE)

-----------------------------------------------------------------------------
(* tts, the except clauses, lines 254-269 *)

RequestExceptions == {"RequestException", "Timeout"}
ValueErrors == {"ValueError", "JSONDecodeError"}
\* every exception raised here but KeyboardInterrupt derives from Exception
BaseOnly == {"KeyboardInterrupt"}

Caught(propagates, value) == [propagates |-> propagates, value |-> value]

\* A bug: no clause for KeyboardInterrupt.
TtsCatchNoInterrupt(exc) ==
    IF exc \in BaseOnly THEN Caught(TRUE, Unset) ELSE Caught(FALSE, PyNone)

\* A bug: no catch-all clause.
TtsCatchExpectedOnly(exc) ==
    IF exc \in RequestExceptions \cup ValueErrors \cup {"KeyboardInterrupt"}
    THEN Caught(FALSE, PyNone)
    ELSE Caught(TRUE, Unset)

\* lines 254-269
TtsCatch(exc) ==
    IF exc \in RequestExceptions THEN Caught(FALSE, PyNone)
    ELSE IF exc \in ValueErrors THEN Caught(FALSE, PyNone)
    ELSE IF exc = "KeyboardInterrupt" THEN Caught(FALSE, PyNone)
    ELSE IF exc \notin BaseOnly THEN Caught(FALSE, PyNone)
    ELSE Caught(TRUE, Unset)

-----------------------------------------------------------------------------
(* _join_queue, lines 104-140 *)

\* the body of the reply to the POST
Ack(enc, hash) == [enc |-> enc, hash |-> hash]
Acks == { Ack("json_object", PyNone), Ack("json_object", "srv000000"),
          Ack("json_other", PyNone), Ack("not_json", PyNone) }
NoAck == Ack("none", PyNone)

PostOutcomes == {"2xx", "http_error", "timeout", "transport_error"}

JoinExit(kind, exc, hash) == [kind |-> kind, exc |-> exc, session_hash |-> hash]
NoJoinExit == JoinExit("none", NoExc, Unset)

\* A bug: the acknowledgment is returned as the server sent it.
JoinQueueUnmerged(outcome, ack, tok) ==
    CASE outcome = "timeout" -> JoinExit("raise", "Timeout", Unset)
      [] outcome = "http_error" -> JoinExit("raise", "RequestException", Unset)
      [] outcome = "transport_error" -> JoinExit("raise", "UnboundLocalError", Unset)
      [] outcome = "2xx" /\ ack.enc = "not_json" -> JoinExit("raise", "JSONDecodeError", Unset)
      [] outcome = "2xx" /\ ack.enc = "json_other" -> JoinExit("return", NoExc, PyNone)
      [] OTHER -> JoinExit("return", NoExc, ack.hash)

\* A bug: raise_for_status is not called, an error status is taken for an
\* acknowledgment.
JoinQueueNoStatusCheck(outcome, ack, tok) ==
    CASE outcome = "timeout" -> JoinExit("raise", "Timeout", Unset)
      [] outcome = "http_error" -> JoinExit("return", NoExc, tok)
      [] outcome = "transport_error" -> JoinExit("raise", "UnboundLocalError", Unset)
      [] outcome = "2xx" /\ ack.enc = "not_json" -> JoinExit("raise", "JSONDecodeError", Unset)
      [] outcome = "2xx" /\ ack.enc = "json_other" -> JoinExit("raise", "TypeError", Unset)
      [] OTHER -> JoinExit("return", NoExc, tok)

\* lines 120-140.  session.post raises Timeout (line 129) or another
\* RequestException; raise_for_status raises HTTPError once response is bound.
\* The handler of line 132 reads response.text: after a transport error
\* response was never assigned, and reading it raises UnboundLocalError.
\* response.json() raises a JSONDecodeError on a body that is not JSON, and
\* result["session_hash"] = ... raises TypeError on a list, a number or null.
JoinQueue(outcome, ack, tok) ==
    CASE outcome = "timeout" -> JoinExit("raise", "Timeout", Unset)
      [] outcome = "http_error" -> JoinExit("raise", "RequestException", Unset)
      [] outcome = "transport_error" -> JoinExit("raise", "UnboundLocalError", Unset)
      [] outcome = "2xx" /\ ack.enc = "not_json" -> JoinExit("raise", "JSONDecodeError", Unset)
      [] outcome = "2xx" /\ ack.enc = "json_other" -> JoinExit("raise", "TypeError", Unset)
      [] OTHER -> JoinExit("return", NoExc, tok)

Request(method, path, hash) == [method |-> method, path |-> path, session_hash |-> hash]

Net(post, reply, get, read) == [post |-> post, reply |-> reply, get |-> get, read |-> read]

-----------------------------------------------------------------------------
(* The response of the GET is used in a with statement (line 160): it is    *)
(* closed when the block is left, by exhaustion, by an exception, or by the *)
(* GeneratorExit thrown at the yield when the suspended generator is        *)
(* finalized as the frame of tts is left.                                   *)

\* A bug: the response is not closed.
ReleaseNothing(s) == s

ReleaseStream(s) == IF s = "open" THEN "closed" ELSE s

\* A bug (or another design): an error while reading a frame ends the
\* sequence of events as if the server had closed the stream.
OnReadErrorEndsSequence == Outcome("return", PyNone, NoExc, "exhausted", FALSE)

\* lines 166, 180-182: the exception of the read leaves the for loop, is
\* caught by the outer except clause and raised again as a RequestException
OnReadError == Outcome("raise", PyNone, "RequestException", "exception", FALSE)

-----------------------------------------------------------------------------
(* How tts ends *)

Return(value, why) ==
    /\ pc' = "done"
    /\ result' = value
    /\ cause' = why
    /\ raised' = FALSE
    /\ returnTime' = now
    /\ stream' = ReleaseStream(stream)

\* an exception reaches the try statement of tts (line 217)
Raise(exc) ==
    /\ pc' = "done"
    /\ result' = TtsCatch(exc).value
    /\ cause' = exc
    /\ raised' = TtsCatch(exc).propagates
    /\ returnTime' = now
    /\ stream' = ReleaseStream(stream)

-----------------------------------------------------------------------------
(* Two calls of tts on the same client.  A call keeps its token in locals    *)
(* (session_hash of _join_queue, line 104; session_hash of tts, line 220);   *)
(* the client object holds base_url and the requests Session (lines 72-80).  *)

CallIds == {1, 2}

CallState(at, token, getHash, conn, consumed) ==
    [at |-> at, token |-> token, getHash |-> getHash, conn |-> conn,
     consumed |-> consumed]
IdleCall == CallState("idle", Unset, Unset, 0, {})

Job(owner, hash) == [owner |-> owner, hash |-> hash]

\* A bug: the token is kept in an attribute of the client, which the calls
\* share, so the GET uses the token generated last by any call.
PollTokenShared(c) == generated[Len(generated)]

\* lines 220-226, 153: the session_hash of the GET is the call's own local
PollToken(c) == calls[c].token

-----------------------------------------------------------------------------
Init ==
    /\ pc = "idle"
    /\ now = 0
    /\ start_time = 0
    /\ timeout = 0
    /\ gap = 0
    /\ generated = <<>>
    /\ reqs = <<>>
    /\ joinExit = NoJoinExit
    /\ session_hash = Unset
    /\ stream = "none"
    /\ sent = <<>>
    /\ event = NoEvent
    /\ seen = <<>>
    /\ examined = FALSE
    /\ result = Unset
    /\ cause = Unset
    /\ raised = FALSE
    /\ returnTime = 0
    /\ net = Net("none", NoAck, "none", "none")
    /\ calls = [c \in CallIds |-> IdleCall]
    /\ jobs = {}

\* tts is called: lines 215-219 and _join_queue up to the POST (104-127)
Call ==
    /\ pc = "idle"
    /\ \E T \in 1..MaxTimeout, tok \in Tokens :
         /\ timeout' = T
         /\ generated' = Append(generated, tok)
         /\ reqs' = Append(reqs, Request("POST", "/gradio_api/queue/join", tok))
    /\ start_time' = now
    /\ gap' = 0
    /\ pc' = "post"
    /\ UNCHANGED <<now, joinExit, session_hash, stream, sent, event, seen,
                   examined, result, cause, raised, returnTime, net>>
    /\ UNCHANGED twoCalls

\* how long a blocking network step may wait before its timeout ends it
WaitLimit ==
    CASE pc = "post" -> CONNECT_TIMEOUT + DEFAULT_TIMEOUT_JOIN
      [] pc = "get" -> CONNECT_TIMEOUT + timeout
      [] OTHER -> timeout

\* a second passes while tts is blocked on the network
Tick ==
    /\ pc \in {"post", "get", "wait"}
    /\ now < MaxTime
    /\ gap < WaitLimit
    /\ now' = now + 1
    /\ gap' = gap + 1
    /\ UNCHANGED <<pc, start_time, timeout, generated, reqs, joinExit, session_hash,
                   stream, sent, event, seen, examined, result, cause, raised,
                   returnTime, net>>
    /\ UNCHANGED twoCalls

\* _join_queue has ended with j: tts lines 219-226, and _poll_data up to the
\* GET (153-160) when a token came back
AfterJoin(j) ==
    /\ joinExit' = j
    /\ IF j.kind = "raise"
       THEN /\ Raise(j.exc)
            /\ UNCHANGED <<session_hash, reqs, gap>>
       ELSE /\ session_hash' = j.session_hash
            /\ IF ~Truthy(j.session_hash)
               THEN /\ Raise("ValueError")
                    /\ UNCHANGED <<reqs, gap>>
               ELSE /\ reqs' = Append(reqs, Request("GET", "/gradio_api/queue/data",
                                                    j.session_hash))
                    /\ pc' = "get"
                    /\ gap' = 0
                    /\ UNCHANGED <<result, cause, raised, returnTime, stream>>

\* the POST fails: lines 129-134, then the except clauses of tts
PostFails ==
    /\ pc = "post"
    /\ \E o \in PostOutcomes \ {"2xx"} :
         /\ o = "timeout" => (gap = CONNECT_TIMEOUT \/ gap >= DEFAULT_TIMEOUT_JOIN)
         /\ net' = [net EXCEPT !.post = o]
         /\ AfterJoin(JoinQueue(o, NoAck, generated[Len(generated)]))
    /\ UNCHANGED <<now, start_time, timeout, generated, sent, event, seen, examined>>
    /\ UNCHANGED twoCalls

\* the POST is answered 2xx: lines 136-140, then tts lines 220-226 and
\* _poll_data up to the GET (153-160)
PostAnswered ==
    /\ pc = "post"
    /\ \E ack \in Acks :
         /\ net' = [net EXCEPT !.post = "2xx", !.reply = ack]
         /\ AfterJoin(JoinQueue("2xx", ack, generated[Len(generated)]))
    /\ UNCHANGED <<now, start_time, timeout, generated, sent, event, seen, examined>>
    /\ UNCHANGED twoCalls

\* the GET fails: no response (transport error, timeout), or a response whose
\* raise_for_status raises inside the with block; lines 160-161, 180-182
GetFails ==
    /\ pc = "get"
    /\ \E o \in PostOutcomes \ {"2xx"} :
         /\ o = "timeout" => (gap = CONNECT_TIMEOUT \/ gap >= timeout)
         /\ pc' = "done"
         /\ result' = TtsCatch("RequestException").value
         /\ raised' = TtsCatch("RequestException").propagates
         /\ cause' = "RequestException"
         /\ returnTime' = now
         /\ stream' = IF o = "http_error" THEN ReleaseStream("open") ELSE stream
         /\ net' = [net EXCEPT !.get = o]
    /\ UNCHANGED <<now, start_time, timeout, gap, generated, reqs, joinExit,
                   session_hash, sent, event, seen, examined>>
    /\ UNCHANGED twoCalls

\* the GET is answered 2xx: the stream is open and the generator waits for a frame
GetAnswered ==
    /\ pc = "get"
    /\ stream' = "open"
    /\ pc' = "wait"
    /\ gap' = 0
    /\ net' = [net EXCEPT !.get = "2xx"]
    /\ UNCHANGED <<now, start_time, timeout, generated, reqs, joinExit,
                   session_hash, sent, event, seen, examined, result, cause, raised,
                   returnTime>>
    /\ UNCHANGED twoCalls

\* bytes that dispatch no event (an SSE comment, an event without data): the
\* read timeout starts again and nothing is yielded
Heartbeat ==
    /\ pc = "wait"
    /\ 0 < gap /\ gap < timeout
    /\ gap' = 0
    /\ UNCHANGED <<pc, now, start_time, timeout, generated, reqs, joinExit,
                   session_hash, stream, sent, event, seen, examined, result, cause,
                   raised, returnTime, net>>
    /\ UNCHANGED twoCalls

\* a frame arrives before the read timeout: lines 166-178, up to the yield
FrameArrives ==
    /\ pc = "wait"
    /\ gap < timeout
    /\ Len(sent) < MaxEvents
    /\ \E f \in Frames :
         /\ sent' = Append(sent, f)
         /\ event' = Parse(f)
    /\ pc' = "body"
    /\ gap' = 0
    /\ UNCHANGED <<now, start_time, timeout, generated, reqs, joinExit,
                   session_hash, stream, seen, examined, result, cause, raised,
                   returnTime, net>>
    /\ UNCHANGED twoCalls

\* the loop body of tts runs on the yielded value: lines 227-252
HandleEvent ==
    /\ pc = "body"
    /\ Len(seen) < Len(sent)
    /\ seen' = Append(seen, event)
    /\ LET out == LoopBody(event, now, start_time, timeout) IN
         /\ examined' = (examined \/ out.readsData)
         /\ CASE out.kind = "continue" ->
                   /\ pc' = "wait"
                   /\ UNCHANGED <<result, cause, raised, returnTime, stream>>
              [] out.kind = "return" -> Return(out.value, out.why)
              [] OTHER -> Raise(out.exc)
    /\ UNCHANGED <<now, start_time, timeout, gap, generated, reqs, joinExit,
                   session_hash, sent, event, net>>
    /\ UNCHANGED twoCalls

\* the server ends the stream: the generator is exhausted, the for loop ends
\* and tts returns at line 273
ServerCloses ==
    /\ pc = "wait"
    /\ IF AfterLoop.kind = "return"
       THEN Return(AfterLoop.value, AfterLoop.why)
       ELSE \* line 273 is outside the try statement: nothing catches
            /\ pc' = "done"
            /\ result' = Unset
            /\ cause' = AfterLoop.why
            /\ raised' = TRUE
            /\ returnTime' = now
            /\ stream' = ReleaseStream(stream)
    /\ net' = [net EXCEPT !.read = "closed"]
    /\ UNCHANGED <<now, start_time, timeout, gap, generated, reqs, joinExit,
                   session_hash, sent, event, seen, examined>>
    /\ UNCHANGED twoCalls

\* reading the next frame fails: the read timeout (no byte for timeout seconds)
\* or a broken connection; iter_content raises a RequestException, which leaves
\* the for loop of _poll_data and is raised again at line 182
ReadFails ==
    /\ pc = "wait"
    /\ \E o \in {"read_timeout", "connection_broken"} :
         /\ o = "read_timeout" => gap = timeout
         /\ net' = [net EXCEPT !.read = o]
    /\ IF OnReadError.kind = "raise"
       THEN Raise(OnReadError.exc)
       ELSE Return(OnReadError.value, OnReadError.why)
    /\ UNCHANGED <<now, start_time, timeout, gap, generated, reqs, joinExit,
                   session_hash, sent, event, seen, examined>>
    /\ UNCHANGED twoCalls

\* Ctrl+C while tts is inside its try statement
Interrupt ==
    /\ pc \in {"post", "get", "wait", "body"}
    /\ Raise("KeyboardInterrupt")
    /\ UNCHANGED <<now, start_time, timeout, gap, generated, reqs, joinExit,
                   session_hash, sent, event, seen, examined, net>>
    /\ UNCHANGED twoCalls

Next ==
    \/ Call
    \/ Tick
    \/ PostFails
    \/ PostAnswered
    \/ GetFails
    \/ GetAnswered
    \/ Heartbeat
    \/ FrameArrives
    \/ HandleEvent
    \/ ServerCloses
    \/ ReadFails
    \/ Interrupt

Spec == Init /\ [][Next]_vars

-----------------------------------------------------------------------------
(* Two calls on one client, run one after the other or interleaved: only    *)
(* the tokens, the requests and the connections are followed.               *)

\* call c starts: _generate_session_hash and the POST (lines 104-127)
CallStarts(c) ==
    /\ calls[c].at = "idle"
    /\ \E tok \in Tokens :
         /\ generated' = Append(generated, tok)
         /\ reqs' = Append(reqs, Request("POST", "/gradio_api/queue/join", tok))
         /\ calls' = [calls EXCEPT ![c].at = "post", ![c].token = tok]
    /\ UNCHANGED jobs
    /\ UNCHANGED oneCall

\* the POST of call c is answered: the server queues the job under the
\* session_hash of the POST, and the call issues its GET (lines 136-160),
\* whose response will be its connection
CallJoined(c) ==
    /\ calls[c].at = "post"
    /\ jobs' = jobs \cup {Job(c, calls[c].token)}
    /\ reqs' = Append(reqs, Request("GET", "/gradio_api/queue/data", PollToken(c)))
    /\ calls' = [calls EXCEPT ![c].at = "get", ![c].getHash = PollToken(c),
                             ![c].conn = Len(reqs) + 1]
    /\ UNCHANGED generated
    /\ UNCHANGED oneCall

\* the GET of call c is answered: the call iterates the response of its own
\* request (line 160); conn is the number of that request
CallStreams(c) ==
    /\ calls[c].at = "get"
    /\ calls' = [calls EXCEPT ![c].at = "stream"]
    /\ UNCHANGED <<generated, reqs, jobs>>
    /\ UNCHANGED oneCall

\* call c reads an event from its stream: the server sends on a connection
\* the events of the jobs queued under its session_hash (lines 166-170)
CallConsumes(c) ==
    /\ calls[c].at = "stream"
    /\ \E j \in jobs :
         /\ j.hash = calls[c].getHash
         /\ calls' = [calls EXCEPT ![c].consumed = @ \cup {j.owner}]
    /\ UNCHANGED <<generated, reqs, jobs>>
    /\ UNCHANGED oneCall

\* call c returns, from any place (lines 229-273)
CallReturns(c) ==
    /\ calls[c].at \in {"post", "get", "stream"}
    /\ calls' = [calls EXCEPT ![c].at = "done"]
    /\ UNCHANGED <<generated, reqs, jobs>>
    /\ UNCHANGED oneCall

NextTwoCalls ==
    \E c \in CallIds :
        \/ CallStarts(c)
        \/ CallJoined(c)
        \/ CallStreams(c)
        \/ CallConsumes(c)
        \/ CallReturns(c)

SpecTwoCalls == Init /\ [][NextTwoCalls]_vars

-----------------------------------------------------------------------------
(* A stream of any length.  The code keeps no record of the events it has    *)
(* handled: here sent and seen stay empty, so that the number of frames is   *)
(* not bounded and a server may go on sending for ever.                      *)

\* a frame arrives before the read timeout: lines 166-178, up to the yield
FrameRead ==
    /\ pc = "wait"
    /\ gap < timeout
    /\ \E f \in Frames : event' = Parse(f)
    /\ pc' = "body"
    /\ gap' = 0
    /\ UNCHANGED <<now, start_time, timeout, generated, reqs, joinExit,
                   session_hash, stream, sent, seen, examined, result, cause,
                   raised, returnTime, net>>
    /\ UNCHANGED twoCalls

\* the loop body of tts runs on the yielded value: lines 227-252
EventHandled ==
    /\ pc = "body"
    /\ LET out == LoopBody(event, now, start_time, timeout) IN
         /\ examined' = (examined \/ out.readsData)
         /\ CASE out.kind = "continue" ->
                   /\ pc' = "wait"
                   /\ UNCHANGED <<result, cause, raised, returnTime, stream>>
              [] out.kind = "return" -> Return(out.value, out.why)
              [] OTHER -> Raise(out.exc)
    /\ UNCHANGED <<now, start_time, timeout, gap, generated, reqs, joinExit,
                   session_hash, sent, event, seen, net>>
    /\ UNCHANGED twoCalls

NextLive ==
    \/ Call
    \/ Tick
    \/ PostFails
    \/ PostAnswered
    \/ GetFails
    \/ GetAnswered
    \/ Heartbeat
    \/ FrameRead
    \/ EventHandled
    \/ ServerCloses
    \/ ReadFails
    \/ Interrupt

\* Each blocking step ends: the POST and the GET are answered or fail, a wait
\* for the next event ends with an event, the end of the stream or a read
\* error (the read timeout among them).  tts runs its loop body once the
\* generator has yielded.  Time passes: whenever tts blocks again and again,
\* the clock advances.
PostEnds == PostFails \/ PostAnswered
GetEnds == GetFails \/ GetAnswered
WaitEnds == FrameRead \/ ServerCloses \/ ReadFails

Fairness ==
    /\ WF_vars(PostEnds)
    /\ WF_vars(GetEnds)
    /\ WF_vars(WaitEnds)
    /\ WF_vars(EventHandled)
    /\ SF_vars(Tick)

SpecLive == Init /\ [][NextLive]_vars /\ Fairness

-----------------------------------------------------------------------------
(* Vocabulary of the properties *)

Done == pc = "done"
Elapsed == returnTime - start_time

\* the loop body has run on every frame read, so the last one ended the call
LastHandled == Done /\ Len(sent) > 0 /\ Len(seen) = Len(sent)
LastFrame == sent[Len(sent)]

IsCompleted(f) == f.enc = "json_object" /\ f.msg = "process_completed"
SuccessTrue(f) == IsCompleted(f) /\ f.success = "true"

\* the URL carried by output item number i of frame f, None when it carries none
UrlOfItem(f, i) ==
    IF i <= Len(f.data) /\ f.data[i].isdict /\ f.data[i].url \notin {PyNone, ""}
    THEN f.data[i].url
    ELSE PyNone

\* the URL of the first output item that carries one, None when none does
FirstCarriedUrl(f) ==
    IF \E i \in 1..Len(f.data) : UrlOfItem(f, i) # PyNone
    THEN UrlOfItem(f, CHOOSE i \in 1..Len(f.data) :
                        /\ UrlOfItem(f, i) # PyNone
                        /\ \A j \in 1..(i - 1) : UrlOfItem(f, j) = PyNone)
    ELSE PyNone

-----------------------------------------------------------------------------
(* C1.  When the join succeeded and the stream is informational events       *)
(* (send_hash, queue_full, estimation) followed by a process_completed event *)
(* with success = true whose output data carries a URL (in its first item,   *)
(* which is where a URL is read from; lists whose URL sits further back are  *)
(* the subject of C10), and every event arrived within the timeout, tts      *)
(* returns exactly that URL.                                                 *)

C1_HappyStream ==
    /\ LastHandled
    /\ \A i \in 1..(Len(sent) - 1) : sent[i] \in InfoFrames
    /\ SuccessTrue(LastFrame)
    /\ UrlOfItem(LastFrame, 1) # PyNone
    /\ Elapsed <= timeout

C1_ReturnsTheUrl ==
    C1_HappyStream => /\ result = UrlOfItem(LastFrame, 1)
                      /\ result \in Urls
                      /\ ~raised

\* two informational events, then the URL, the last arriving as the budget ends
C1_Witness ==
    /\ C1_HappyStream
    /\ Len(sent) = 3
    /\ Elapsed = timeout
    /\ result = U1

(* C2.  When the first process_completed event tts receives has success      *)
(* false or absent, tts is done in that step with None: it has not read      *)
(* output.data, no further frame has been read, and no request beyond the    *)
(* POST and the GET has been issued.                                         *)

C2_FailureReturnsNone ==
    \A i \in 1..Len(seen) :
        (seen[i].isdict /\ seen[i].msg = "process_completed"
         /\ seen[i].success \in {"false", PyNone})
        => /\ Done
           /\ i = Len(seen)
           /\ result = PyNone
           /\ ~raised
           /\ ~examined
           /\ Len(sent) = Len(seen)
           /\ Len(reqs) = 2

\* a failed completion that does carry a URL, after one other event, in time
C2_Witness ==
    /\ LastHandled
    /\ Len(sent) = 2
    /\ IsCompleted(LastFrame) /\ LastFrame.success = "false"
    /\ LastFrame.data = <<ItemU1>>
    /\ Elapsed <= timeout
    /\ result = PyNone

(* C3.  When the server closes the stream after N >= 0 events none of which  *)
(* is process_completed, tts returns None.                                   *)

C3_ExhaustedReturnsNone ==
    /\ cause = "exhausted"
       => /\ Done
          /\ result = PyNone
          /\ ~raised
          /\ Len(seen) = Len(sent)
          /\ \A i \in 1..Len(sent) : ~IsCompleted(sent[i])
    /\ (Done /\ \A i \in 1..Len(sent) : ~IsCompleted(sent[i]))
       => result = PyNone /\ ~raised

C3_Witness ==
    /\ cause = "exhausted"
    /\ Len(sent) = 2 /\ Len(seen) = 2
    /\ result = PyNone

(* C4.  A call with timeout T has returned by T seconds after it began,      *)
(* whatever the join latency and the arrival times of the frames.  (The      *)
(* clock counts whole seconds, so the tolerance is below one tick.)          *)

C4_ReturnsByDeadline ==
    /\ pc \in {"post", "get", "wait", "body"} => now - start_time <= timeout
    /\ Done => Elapsed <= timeout

(* C5.  A frame whose data is not JSON never ends polling.  _poll_data      *)
(* yields it as a record carrying the raw text and the decode error, and the *)
(* loop body of tts run on such a record goes on to wait for the next frame  *)
(* (it ends the call only through the elapsed-time check).  The frames that  *)
(* decode are handed to tts as they were sent, in order, and with malformed  *)
(* frames anywhere before it the terminal event still decides the result.    *)

\* what a process_completed frame decides when it is handled in time
Decision(f) == IF SuccessTrue(f) THEN UrlOfItem(f, 1) ELSE PyNone

C5_Yielded ==
    \A i \in 1..Len(seen) :
        /\ sent[i].enc = "not_json"
           => /\ seen[i].isdict
              /\ seen[i].raw = sent[i].text
              /\ seen[i].error = "JSONDecodeError"
              /\ seen[i].msg = PyNone
        /\ sent[i].enc = "json_object"
           => /\ seen[i].isdict
              /\ seen[i].msg = sent[i].msg
              /\ seen[i].success = sent[i].success
              /\ seen[i].data = sent[i].data
              /\ seen[i].raw = PyNone

C5_TerminalDecides ==
    ( /\ LastHandled
      /\ IsCompleted(LastFrame)
      /\ Elapsed <= timeout
      /\ \A i \in 1..(Len(sent) - 1) : sent[i].enc # "json_other"
      /\ \E i \in 1..(Len(sent) - 1) : sent[i].enc = "not_json" )
    => result = Decision(LastFrame) /\ ~raised

\* the step of the loop body on a raw record
C5_SkipStep ==
    (pc = "body" /\ event.raw \notin {PyNone, Unset} /\ seen' # seen)
    => \/ pc' = "wait" /\ stream' = "open" /\ result' = Unset
       \/ pc' = "done" /\ cause' = "elapsed"

C5_MalformedNeverEndsPolling ==
    /\ [](C5_Yielded /\ C5_TerminalDecides)
    /\ [][C5_SkipStep]_vars

\* malformed, then a valid informational frame, then the URL
C5_Witness ==
    /\ LastHandled
    /\ Len(sent) = 3
    /\ sent[1].enc = "not_json"
    /\ sent[2] \in InfoFrames
    /\ seen[2].msg = sent[2].msg
    /\ SuccessTrue(LastFrame)
    /\ result = U1

(* C6.  tts never raises: every way the submit step or the poll step fails   *)
(* ends in a return of None, and every return value is None or a URL string. *)

Failures ==
    {"Timeout", "RequestException", "ValueError", "JSONDecodeError", "TypeError",
     "UnboundLocalError", "AttributeError", "KeyboardInterrupt"}

C6_NeverRaises ==
    /\ ~raised
    /\ Done => result \in {PyNone} \cup Urls
    /\ cause \in Failures => Done /\ result = PyNone

\* an error no except clause names: the AttributeError of the loop body
C6_Witness ==
    /\ Done
    /\ cause = "AttributeError"
    /\ result = PyNone
    /\ stream = "closed"

(* C7.  _join_queue ends by returning an acknowledgment that carries the     *)
(* token it generated, or by raising a Timeout or a RequestException, for    *)
(* every outcome of the POST.  (A JSONDecodeError of response.json() is      *)
(* counted as a RequestException, which it is from requests 2.27 on.)        *)

C7_ReturnsTokenOrRaisesRequestFailure ==
    joinExit.kind # "none"
    => \/ /\ joinExit.kind = "return"
          /\ joinExit.session_hash = generated[Len(generated)]
          /\ joinExit.session_hash = reqs[1].session_hash
       \/ /\ joinExit.kind = "raise"
          /\ joinExit.exc \in {"Timeout", "RequestException", "JSONDecodeError"}

(* C8.  When tts has returned, the event stream it opened is closed, on      *)
(* every exit path.                                                          *)

C8_StreamClosedOnReturn == Done => stream # "open"

\* the return of the elapsed-time check, with the generator suspended at its yield
C8_Witness ==
    /\ Done
    /\ cause = "elapsed"
    /\ stream = "closed"

(* C9.  A KeyboardInterrupt while tts is submitting or polling makes tts     *)
(* return None: it does not reach the caller, and the stream, when one is    *)
(* open, is closed.                                                          *)

C9_InterruptReturnsNone ==
    cause = "KeyboardInterrupt"
    => /\ Done
       /\ result = PyNone
       /\ ~raised
       /\ stream # "open"

\* interrupted while blocked on the next frame, after one event was handled
C9_Witness ==
    /\ cause = "KeyboardInterrupt"
    /\ stream = "closed"
    /\ Len(sent) = 1 /\ Len(seen) = 1
    /\ result = PyNone

(* C10.  As claimed: on a process_completed event with success = true,       *)
(* handled in time, tts returns the URL of the first output item that        *)
(* carries one, and None only when no item carries one.                      *)

C10_HandledSuccess ==
    /\ LastHandled
    /\ SuccessTrue(LastFrame)
    /\ Elapsed <= timeout

C10_FirstItemCarryingUrl ==
    C10_HandledSuccess => result = FirstCarriedUrl(LastFrame)

(* C10 as amended: tts returns the url of output item 0 when that item       *)
(* carries a non-empty url, and None otherwise: when the list is empty, when *)
(* item 0 carries no url or is not an object, also when a later item         *)
(* carries one.                                                              *)

C10_FirstItemOnly ==
    C10_HandledSuccess => result = UrlOfItem(LastFrame, 1) /\ ~raised

\* the first item carries no URL, the second does
C10_Witness ==
    /\ C10_HandledSuccess
    /\ LastFrame.data = <<ItemNoUrl, ItemU1>>
    /\ result = PyNone

(* C11.  Within one tts call exactly one session token is generated, and    *)
(* that token is the session_hash of the POST body, the session_hash of the  *)
(* acknowledgment _join_queue returns (whatever session_hash the reply of    *)
(* the server carries, or none), and the session_hash parameter of the GET.  *)

C11_OneTokenEverywhere ==
    /\ Len(generated) <= 1
    /\ pc # "idle"
       => /\ Len(generated) = 1
          /\ Len(reqs) >= 1
          /\ reqs[1].method = "POST"
          /\ reqs[1].session_hash = generated[1]
    /\ joinExit.kind = "return"
       => /\ joinExit.session_hash = generated[1]
          /\ session_hash = generated[1]
    /\ Len(reqs) >= 2
       => /\ reqs[2].method = "GET"
          /\ reqs[2].session_hash = generated[1]

\* the reply carries another session_hash, and the GET still uses the token
C11_Witness ==
    /\ Len(reqs) = 2
    /\ net.reply = Ack("json_object", "srv000000")
    /\ joinExit.session_hash = generated[1]
    /\ reqs[2].session_hash = reqs[1].session_hash

(* C12.  As claimed: the session tokens of any two tts calls on the same    *)
(* client differ, and no call consumes events of a stream keyed by the other *)
(* call's token.                                                             *)

C12_TokensDiffer ==
    \A c, d \in CallIds :
        (c # d /\ calls[c].at # "idle" /\ calls[d].at # "idle")
        => /\ calls[c].token # calls[d].token
           /\ calls[c].consumed \subseteq {c}

(* C12 as amended: each call generates its own token with its own random    *)
(* draw and uses it for its own POST and for its own GET, on a connection of *)
(* its own; the two tokens differ unless the two draws coincide, and when    *)
(* they differ no call consumes events of the other call's job.              *)

C12_OwnTokenOwnStream ==
    \A c \in CallIds :
        /\ calls[c].at # "idle"
           => \E i \in 1..Len(reqs) :
                 /\ reqs[i].method = "POST"
                 /\ reqs[i].session_hash = calls[c].token
        /\ calls[c].getHash # Unset => calls[c].getHash = calls[c].token
        /\ calls[c].conn # 0
           => /\ reqs[calls[c].conn].method = "GET"
              /\ reqs[calls[c].conn].session_hash = calls[c].token
              /\ \A d \in CallIds \ {c} : calls[d].conn # calls[c].conn
        /\ \A d \in CallIds \ {c} :
              (calls[d].at # "idle" /\ calls[d].token # calls[c].token)
              => calls[c].consumed \subseteq {c}

\* the two calls interleaved, with different tokens, each fed by its own job
C12_Witness ==
    /\ \A c \in CallIds : calls[c].at = "done" /\ calls[c].consumed = {c}
    /\ calls[1].token # calls[2].token
    /\ Len(reqs) = 4
    /\ reqs[1].method = "POST" /\ reqs[2].method = "POST"

(* C13.  A tts call follows Idle -> Submitting -> Polling -> terminal: it    *)
(* returns once, nothing happens after it has returned, and it returns a     *)
(* value other than None only from Polling, in the step that handles, within *)
(* the timeout, a process_completed event with success = true carrying that  *)
(* URL; never from Submitting, and never after it has ended otherwise.       *)

C13_Moves ==
    { <<"idle", "post">>, <<"post", "post">>, <<"post", "get">>, <<"post", "done">>,
      <<"get", "get">>, <<"get", "wait">>, <<"get", "done">>,
      <<"wait", "wait">>, <<"wait", "body">>, <<"wait", "done">>,
      <<"body", "wait">>, <<"body", "done">> }

C13_Step ==
    /\ pc # "done"
    /\ <<pc, pc'>> \in C13_Moves
    /\ pc' # "done" => result' = Unset /\ cause' = Unset
    /\ (pc' = "done" /\ result' # PyNone)
       => /\ pc = "body"
          /\ ~raised'
          /\ event.isdict /\ event.msg = "process_completed" /\ event.success = "true"
          /\ Len(event.data) > 0 /\ event.data[1].isdict
          /\ result' = event.data[1].url
          /\ now - start_time <= timeout

C13_Succeeded ==
    (Done /\ result # PyNone)
    => /\ result \in Urls
       /\ cause = "completed"
       /\ net.post = "2xx" /\ net.get = "2xx" /\ net.read = "none"
       /\ LastHandled
       /\ SuccessTrue(LastFrame)
       /\ UrlOfItem(LastFrame, 1) = result

C13_StateMachine ==
    /\ [](C13_Succeeded /\ (~Done => result = Unset /\ cause = Unset))
    /\ [][C13_Step]_vars

C13_Witness ==
    /\ Done
    /\ result = U1
    /\ cause = "completed"
    /\ Len(sent) = 2

(* C14.  The elapsed-time check comes first in the loop body, for every      *)
(* event: when more than timeout seconds have passed since tts began, the    *)
(* step that handles the event returns None without looking at the event,    *)
(* whatever it is; at exactly timeout seconds (and before) the event is      *)
(* interpreted: an informational one continues polling, a successful         *)
(* process_completed with a URL in its first item returns that URL.          *)

C14_Handling == pc = "body" /\ seen' # seen

C14_Step ==
    C14_Handling =>
      IF now - start_time > timeout
      THEN /\ pc' = "done"
           /\ result' = PyNone
           /\ cause' = "elapsed"
           /\ ~raised'
           /\ examined' = examined
      ELSE /\ cause' # "elapsed"
           /\ (event.isdict /\ event.msg \in InfoMsgs) => pc' = "wait"
           /\ (/\ event.isdict /\ event.msg = "process_completed"
               /\ event.success = "true"
               /\ Len(event.data) > 0 /\ event.data[1].isdict
               /\ event.data[1].url \in Urls)
              => pc' = "done" /\ result' = event.data[1].url

C14_ElapsedCheckedFirst == [][C14_Step]_vars

C14_Witness ==
    /\ Done
    /\ cause = "elapsed"
    /\ result = PyNone
    /\ LastHandled
    /\ SuccessTrue(LastFrame)
    /\ UrlOfItem(LastFrame, 1) \in Urls
    /\ ~examined

(* C15.  As claimed: once _poll_data has yielded an event, an error while    *)
(* reading a later frame (read timeout, broken connection) does not make the *)
(* generator raise; tts sees a raw event or the normal end of the sequence.  *)

ReadErrors == {"read_timeout", "connection_broken"}
GetErrors == PostOutcomes \ {"2xx"}

C15_NoRaiseAfterFirstEvent ==
    (Done /\ Len(seen) >= 1 /\ net.read \in ReadErrors)
    => cause # "RequestException"

(* C15, amended.  _poll_data raises a RequestException when the stream       *)
(* cannot be established (no event has been yielded then) and also when      *)
(* reading a frame fails, before the first event or after any number of      *)
(* them: no event is yielded for the failed read and tts returns None.  Only *)
(* a frame that is not JSON becomes a raw record, and only the server        *)
(* closing the stream ends the sequence normally.                            *)

C15_ReadErrorRaises ==
    /\ (Done /\ joinExit.kind = "return" /\ Truthy(joinExit.session_hash))
       => (cause = "RequestException"
           <=> (net.get \in GetErrors \/ net.read \in ReadErrors))
    /\ net.get \in GetErrors => Done /\ sent = <<>> /\ net.read = "none"
    /\ net.read \in ReadErrors
       => /\ Done /\ result = PyNone /\ ~raised
          /\ net.get = "2xx"
          /\ Len(seen) = Len(sent)
    /\ net.read = "closed" => Done /\ cause = "exhausted" /\ Len(seen) = Len(sent)
    /\ \A i \in 1..Len(seen) :
         (seen[i].isdict /\ seen[i].raw # PyNone) <=> sent[i].enc = "not_json"

C15_Witness ==
    /\ Done
    /\ Len(seen) >= 1
    /\ seen[1].raw # PyNone
    /\ net.read = "connection_broken"
    /\ cause = "RequestException"
    /\ result = PyNone

(* C16.  Every value _poll_data yields other than a process_completed record *)
(* is ignored by tts and polling continues: when the last value handled is   *)
(* not a process_completed record (an informational record, a record with an *)
(* unknown or missing msg, a raw record, JSON that is not an object), the    *)
(* call has not been ended by handling it, only by what came afterwards (the *)
(* stream closing, a read error, an interrupt) or by the elapsed-time check. *)

C16_EndedOtherwise == {"exhausted", "RequestException", "KeyboardInterrupt", "elapsed"}

C16_OthersIgnored ==
    (Done /\ Len(seen) >= 1 /\ ~IsCompleted(sent[Len(seen)]))
    => cause \in C16_EndedOtherwise

(* C17.  A tts call makes a single attempt: one POST to the queue-join       *)
(* endpoint, then at most one GET to the queue-data endpoint, issued only    *)
(* when the POST was answered 2xx with an acknowledgment _join_queue         *)
(* returned; after a failure of either request the call has ended and no     *)
(* request follows.                                                          *)

C17_SingleAttempt ==
    /\ pc = "idle" => reqs = <<>>
    /\ pc # "idle"
       => /\ Len(reqs) \in {1, 2}
          /\ reqs[1].method = "POST" /\ reqs[1].path = "/gradio_api/queue/join"
    /\ pc = "post" => Len(reqs) = 1
    /\ Len(reqs) = 2
       => /\ reqs[2].method = "GET" /\ reqs[2].path = "/gradio_api/queue/data"
          /\ net.post = "2xx"
          /\ net.reply.enc = "json_object"
          /\ joinExit.kind = "return"
    /\ net.post \in GetErrors => Done /\ Len(reqs) = 1
    /\ net.get \in GetErrors => Done /\ Len(reqs) = 2

C17_NoRequestAfterFailure ==
    /\ []C17_SingleAttempt
    /\ [][(Done \/ net.post \in GetErrors \/ net.get \in GetErrors) => reqs' = reqs]_vars

C17_Witness ==
    /\ Done
    /\ Len(reqs) = 2
    /\ net.get = "http_error"
    /\ result = PyNone

(* C19.  The missing-token outcome of tts is unreachable: whenever            *)
(* _join_queue returns, its result carries the token it generated, which is  *)
(* non-empty, whatever the acknowledgment of the server contains, so the     *)
(* ValueError of line 223 is never raised.                                   *)

C19_TokenNeverMissing ==
    /\ cause # "ValueError"
    /\ joinExit.kind = "return"
       => /\ joinExit.session_hash \in Tokens
          /\ Truthy(joinExit.session_hash)
          /\ joinExit.session_hash = generated[Len(generated)]
          /\ session_hash = joinExit.session_hash
          /\ Len(reqs) = 2

C19_Witness ==
    /\ joinExit.kind = "return"
    /\ net.reply = Ack("json_object", PyNone)
    /\ Truthy(session_hash)
    /\ Len(reqs) = 2
    /\ pc = "get"

(* C20.  When every event is handled within the timeout, the result of tts   *)
(* is a function of the first process_completed event alone: once that event *)
(* has been handled, after any informational, unknown-msg or raw events, the *)
(* call has returned the value that event decides (the URL of its first      *)
(* output item when success is true, None otherwise), and the generator has  *)
(* read no frame after it.  Two runs with the same first process_completed   *)
(* event therefore return the same value, whatever precedes or follows it.   *)

C20_FirstCompleted(k) ==
    /\ IsCompleted(sent[k])
    /\ \A i \in 1..(k - 1) : ~IsCompleted(sent[i]) /\ sent[i].enc # "json_other"

C20_FirstCompletedDecides ==
    \A k \in 1..Len(seen) :
        C20_FirstCompleted(k)
        => /\ Done
           /\ Len(seen) = k /\ Len(sent) = k
           /\ Elapsed <= timeout => result = Decision(sent[k]) /\ ~raised

C20_Witness ==
    /\ Done
    /\ Len(seen) = 3
    /\ C20_FirstCompleted(3)
    /\ sent[1].enc = "not_json"
    /\ sent[2] \in InfoFrames \cup OtherFrames
    /\ Elapsed <= timeout
    /\ result = U1

(* C18.  Every tts call eventually returns, provided each blocking network   *)
(* step (the POST, the GET, each wait for the next event of the stream)      *)
(* eventually delivers, closes, fails or times out, and time passes: also    *)
(* when the server never sends a terminal event and goes on sending          *)
(* informational or unknown events for ever, where the elapsed-time check of *)
(* the loop ends the call.                                                   *)

C18_EventuallyReturns == (pc # "idle") ~> Done

C18_Witness ==
    /\ Done
    /\ cause = "elapsed"
    /\ result = PyNone
    /\ event \in { Parse(f) : f \in InfoFrames \cup OtherFrames }
    /\ ~examined
    /\ returnTime = MaxTime

====
